---- MODULE Spec2Model ----
(***************************************************************************)
(* A model of sanction's OAuth 2.0 client (src/sanction/__init__.py):      *)
(* the Client object, its token state machine (request_token / refresh),   *)
(* the request builders (auth_uri, transport_headers, transport_query)     *)
(* and the default response parser.                                         *)
(*                                                                         *)
(* Text is modelled as a sequence of symbols: the URL and form delimiters   *)
(* "://", "/", "?", "#", "&", "=" are symbols of their own, every other     *)
(* symbol is an opaque chunk of characters (a digit, a word).  Python       *)
(* values are tagged records, Python dicts are sequences of <<key, value>>  *)
(* pairs with distinct keys in insertion order.                             *)
(***************************************************************************)
EXTENDS Integers, Sequences, FiniteSets, TLC

VARIABLES
    attrs,      \* the Client's attributes: attribute name -> value
    utcnow,     \* datetime.utcnow(), in whole seconds
    utcoffset,  \* the host's local time zone: local time - UTC, in seconds
    op,         \* the call that just ended, "idle" once the caller let go of it
    args,       \* its arguments and what the provider answered
    pre,        \* the Client's attributes and the clock when it started
    sent,       \* the HTTP requests it handed to urlopen, in order
    built,      \* the requests its transport strategy built, in order
    result      \* what it returned or raised

vars == <<attrs, utcnow, utcoffset, op, args, pre, sent, built, result>>

-----------------------------------------------------------------------------
(* Python values *)

None == [tag |-> "none", s |-> <<>>, n |-> 0]
Str(s) == [tag |-> "str", s |-> s, n |-> 0]
Num(n) == [tag |-> "int", s |-> <<>>, n |-> n]
Fn(name) == [tag |-> "fn", s |-> <<name>>, n |-> 0]

\* bool(v)
Truthy(v) ==
    CASE v.tag = "none" -> FALSE
      [] v.tag = "str" -> v.s # <<>>
      [] v.tag = "int" -> v.n # 0
      [] OTHER -> TRUE

Digits == <<"0", "1", "2", "3", "4", "5", "6", "7", "8", "9">>

IsDigit(c) == \E i \in 1..10 : Digits[i] = c

DigitValue(c) == (CHOOSE i \in 1..10 : Digits[i] = c) - 1

RECURSIVE NatToStr(_)
NatToStr(n) ==
    IF n < 10 THEN <<Digits[n + 1]>>
    ELSE NatToStr(n \div 10) \o <<Digits[(n % 10) + 1]>>

\* str(v), as urlencode and str.format apply it
PyStr(v) ==
    CASE v.tag = "none" -> <<"None">>
      [] v.tag = "str" -> v.s
      [] v.tag = "int" -> IF v.n < 0 THEN <<"-">> \o NatToStr(0 - v.n)
                          ELSE NatToStr(v.n)
      [] OTHER -> <<"<function>">>

RECURSIVE DigitsToNat(_, _)
DigitsToNat(s, acc) ==
    IF s = <<>> THEN acc
    ELSE DigitsToNat(Tail(s), acc * 10 + DigitValue(Head(s)))

AllDigits(s) == s # <<>> /\ \A i \in 1..Len(s) : IsDigit(s[i])

\* int(v): [ok |-> TRUE, n |-> the number], or ok = FALSE where int() raises
PyInt(v) ==
    CASE v.tag = "int" -> [ok |-> TRUE, n |-> v.n]
      [] v.tag = "str" /\ AllDigits(v.s) ->
            [ok |-> TRUE, n |-> DigitsToNat(v.s, 0)]
      [] v.tag = "str" /\ Len(v.s) > 1 /\ Head(v.s) = "-" /\ AllDigits(Tail(v.s)) ->
            [ok |-> TRUE, n |-> 0 - DigitsToNat(Tail(v.s), 0)]
      [] v.tag = "str" /\ Len(v.s) > 1 /\ Head(v.s) = "+" /\ AllDigits(Tail(v.s)) ->
            [ok |-> TRUE, n |-> DigitsToNat(Tail(v.s), 0)]
      [] OTHER -> [ok |-> FALSE, n |-> 0]

-----------------------------------------------------------------------------
(* Python dicts *)

DictKeys(d) == {d[i][1] : i \in 1..Len(d)}

DictHas(d, k) == k \in DictKeys(d)

DictGet(d, k) == d[CHOOSE i \in 1..Len(d) : d[i][1] = k][2]

\* d[k] = v: an existing key keeps its place
DictSet(d, k, v) ==
    IF DictHas(d, k)
    THEN [i \in 1..Len(d) |-> IF d[i][1] = k THEN <<k, v>> ELSE d[i]]
    ELSE Append(d, <<k, v>>)

\* dict(pairs): a repeated key keeps its last value
RECURSIVE DictOf(_, _)
DictOf(pairs, d) ==
    IF pairs = <<>> THEN d
    ELSE DictOf(Tail(pairs), DictSet(d, Head(pairs)[1], Head(pairs)[2]))

-----------------------------------------------------------------------------
(* Text: splitting and joining *)

\* the index of the first occurrence of symbol c in s, 0 when there is none
Find(s, c) ==
    IF \E i \in 1..Len(s) : s[i] = c
    THEN CHOOSE i \in 1..Len(s) : s[i] = c /\ \A j \in 1..(i - 1) : s[j] # c
    ELSE 0

Before(s, c) == IF Find(s, c) = 0 THEN s ELSE SubSeq(s, 1, Find(s, c) - 1)

After(s, c) == IF Find(s, c) = 0 THEN <<>> ELSE SubSeq(s, Find(s, c) + 1, Len(s))

\* s.split(c)
RECURSIVE Split(_, _)
Split(s, c) ==
    IF Find(s, c) = 0 THEN <<s>>
    ELSE <<Before(s, c)>> \o Split(After(s, c), c)

StartsWith(s, p) == Len(s) >= Len(p) /\ SubSeq(s, 1, Len(p)) = p

\* c.join(parts)
RECURSIVE Join(_, _)
Join(parts, c) ==
    IF parts = <<>> THEN <<>>
    ELSE IF Len(parts) = 1 THEN Head(parts)
    ELSE Head(parts) \o <<c>> \o Join(Tail(parts), c)

-----------------------------------------------------------------------------
(* urllib: percent-encoding, urlencode, parse_qsl, urlsplit, urlunsplit *)

\* the symbols quote_plus escapes, each with its escaped form
Escapes ==
    << <<"://", "%3A%2F%2F">>, <<"/", "%2F">>, <<"?", "%3F">>, <<"#", "%23">>,
       <<"&", "%26">>, <<"=", "%3D">>, <<" ", "+">> >>

QuoteSym(c) ==
    IF \E i \in 1..Len(Escapes) : Escapes[i][1] = c
    THEN Escapes[CHOOSE i \in 1..Len(Escapes) : Escapes[i][1] = c][2]
    ELSE c

UnquoteSym(c) ==
    IF \E i \in 1..Len(Escapes) : Escapes[i][2] = c
    THEN Escapes[CHOOSE i \in 1..Len(Escapes) : Escapes[i][2] = c][1]
    ELSE c

\* quote_plus(s)
quote_plus(s) == [i \in 1..Len(s) |-> QuoteSym(s[i])]

\* unquote(s.replace('+', ' '))
unquote_plus(s) == [i \in 1..Len(s) |-> UnquoteSym(s[i])]

\* urlencode(d): quote_plus(str(k)) = quote_plus(str(v)), joined with &
urlencode(d) ==
    Join([i \in 1..Len(d) |->
            <<QuoteSym(d[i][1]), "=">> \o quote_plus(PyStr(d[i][2]))], "&")

\* the name of a form field: the one chunk before its "="
FieldName(f) == IF Before(f, "=") = <<>> THEN "" ELSE UnquoteSym(Head(Before(f, "=")))

\* parse_qsl(qs), keep_blank_values and strict_parsing left False: a field
\* without "=" or with an empty value is dropped
RECURSIVE QslFields(_)
QslFields(fields) ==
    IF fields = <<>> THEN <<>>
    ELSE LET f == Head(fields)
             keep == Find(f, "=") # 0 /\ After(f, "=") # <<>>
         IN (IF keep THEN << <<FieldName(f), Str(unquote_plus(After(f, "=")))>> >>
             ELSE <<>>) \o QslFields(Tail(fields))

parse_qsl(qs) == QslFields(Split(qs, "&"))

\* urlsplit(url): scheme://netloc/path?query#fragment
urlsplit(url) ==
    LET nofrag == Before(url, "#")
        head == Before(nofrag, "?")
        hasScheme == Len(head) >= 2 /\ head[2] = "://"
        rest == IF hasScheme THEN SubSeq(head, 3, Len(head)) ELSE head
        slash == Find(rest, "/")
    IN [scheme |-> IF hasScheme THEN <<head[1]>> ELSE <<>>,
        netloc |-> IF ~hasScheme THEN <<>>
                   ELSE IF slash = 0 THEN rest ELSE SubSeq(rest, 1, slash - 1),
        path |-> IF ~hasScheme THEN rest
                 ELSE IF slash = 0 THEN <<>> ELSE SubSeq(rest, slash, Len(rest)),
        query |-> After(nofrag, "?"),
        fragment |-> After(url, "#")]

\* urlunsplit((scheme, netloc, path, query, fragment))
urlunsplit(scheme, netloc, path, query, fragment) ==
    (IF netloc # <<>>
     THEN (IF scheme # <<>> THEN scheme \o <<"://">> ELSE <<"//">>) \o netloc
     ELSE IF scheme # <<>> THEN scheme \o <<":">> ELSE <<>>)
    \o path
    \o (IF query # <<>> THEN <<"?">> \o query ELSE <<>>)
    \o (IF fragment # <<>> THEN <<"#">> \o fragment ELSE <<>>)


-----------------------------------------------------------------------------
(* Requests and the transport strategies *)

\* d.update(e)
DictUpdate(d, e) == DictOf(e, d)

\* _request(url, data, method): a urllib Request with no headers yet
_request(url, data, method) ==
    [url |-> url, data |-> data, method |-> method, headers |-> <<>>]

\* Request.get_method(): the given method, else POST with data, else GET
get_method(req) ==
    IF req.method.tag # "none" THEN PyStr(req.method)
    ELSE IF req.data.tag # "none" THEN <<"POST">> ELSE <<"GET">>

\* transport_headers setting Authorization after the caller's headers
transport_headersBearerLast(url, access_token, data, method, headers) ==
    LET req == _request(url, data, method)
    IN [req EXCEPT !.headers =
            DictSet(DictUpdate(req.headers, headers), "Authorization",
                    Str(<<"Bearer ">> \o PyStr(access_token)))]

transport_headers(url, access_token, data, method, headers) ==
    LET req == _request(url, data, method)
        auth == DictSet(req.headers, "Authorization",
                        Str(<<"Bearer ">> \o PyStr(access_token)))
    IN [req EXCEPT !.headers = DictUpdate(auth, headers)]

transport_query(url, access_token, data, method, headers) ==
    LET parts == urlsplit(url)
        query == DictSet(DictOf(parse_qsl(parts.query), <<>>),
                         "access_token", access_token)
        newurl == urlunsplit(parts.scheme, parts.netloc, parts.path,
                             urlencode(query), parts.fragment)
        req == _request(newurl, data, method)
    IN [req EXCEPT !.headers = DictUpdate(req.headers, headers)]

\* calling self.token_transport
CallTransport(fn, url, access_token, data, method, headers) ==
    IF fn = Fn("transport_headers")
    THEN transport_headers(url, access_token, data, method, headers)
    ELSE transport_query(url, access_token, data, method, headers)

-----------------------------------------------------------------------------
(* Response bodies and parsers.  A body is one of                          *)
(*   JsonObject(d)   a JSON object                                          *)
(*   JsonArray       a non-empty JSON array                                 *)
(*   FormBody(text)  a form-encoded body                                    *)
(*   Binary          bytes the declared charset cannot decode               *)
(* A parser returns [raised, isdict, data].                                 *)

JsonObject(d) == [kind |-> "json", isdict |-> TRUE, obj |-> d, text |-> <<>>]
JsonArray == [kind |-> "json", isdict |-> FALSE, obj |-> <<>>, text |-> <<>>]
FormBody(text) == [kind |-> "form", isdict |-> FALSE, obj |-> <<>>, text |-> text]
Binary == [kind |-> "binary", isdict |-> FALSE, obj |-> <<>>, text |-> <<>>]

JsonLoads(body) ==
    IF body.kind = "json"
    THEN [raised |-> FALSE, isdict |-> body.isdict, data |-> body.obj]
    ELSE [raised |-> TRUE, isdict |-> FALSE, data |-> <<>>]

\* _default_parser(data): JSON, and on ValueError dict(parse_qsl(data))
_default_parser(body) ==
    IF ~JsonLoads(body).raised THEN JsonLoads(body)
    ELSE [raised |-> FALSE, isdict |-> TRUE,
          data |-> IF body.kind = "form" THEN DictOf(parse_qsl(body.text), <<>>)
                   ELSE <<>>]

\* parser = parser or _default_parser; the one other parser is json.loads
ApplyParser(parser, body) ==
    IF Truthy(parser) THEN JsonLoads(body) ELSE _default_parser(body)

\* mktime(t.timetuple()): the broken-down time t read as local time
mktime(t) == t - utcoffset

-----------------------------------------------------------------------------
(* The Client *)

AuthEndpoint == <<"https", "://", "idp", "/", "auth">>
TokenEndpoint == <<"https", "://", "idp", "/", "token">>
ResourceEndpoint == <<"https", "://", "api", "/", "v1">>

\* Client.__init__
ClientInit(token_transport) ==
    [k \in {"auth_endpoint", "token_endpoint", "resource_endpoint", "client_id",
            "client_secret", "access_token", "token_transport", "token_expires",
            "refresh_token"} |->
        CASE k = "auth_endpoint" -> Str(AuthEndpoint)
          [] k = "token_endpoint" -> Str(TokenEndpoint)
          [] k = "resource_endpoint" -> Str(ResourceEndpoint)
          [] k = "client_id" -> Str(<<"cid">>)
          [] k = "client_secret" -> Str(<<"sec">>)
          [] k = "access_token" -> None
          [] k = "token_transport" ->
                IF Truthy(token_transport) THEN token_transport
                ELSE Fn("transport_query")
          [] k = "token_expires" -> Num(-1)
          [] OTHER -> None]

\* hasattr(self, k), for the data attributes
hasattr(a, k) == k \in DOMAIN a

\* an attribute that is there already keeps its value
setattrDefault(a, k, v) == a @@ (k :> v)

\* setattr(self, k, v)
setattr(a, k, v) == (k :> v) @@ a

\* for key in data: setattr(self, key, data[key])
RECURSIVE SetAll(_, _)
SetAll(a, d) ==
    IF d = <<>> THEN a
    ELSE SetAll(setattr(a, Head(d)[1], Head(d)[2]), Tail(d))

Returned(v) == [kind |-> "returned", what |-> "", value |-> v]
Raised(e) == [kind |-> "raised", what |-> e, value |-> <<>>]

\* what urlopen did: raised, or answered with a body
NetError == [status |-> "error", body |-> Binary]
Answered(body) == [status |-> "ok", body |-> body]

\* the parameters with the grant type always authorization_code
TokenParamsFixedGrant(a, redirect_uri, kwargs) ==
    LET kw1 == DictSet(kwargs, "client_id", a["client_id"])
        kw2 == DictSet(kw1, "client_secret", a["client_secret"])
        kw3 == DictSet(kw2, "grant_type", Str(<<"authorization_code">>))
    IN IF Truthy(redirect_uri) THEN DictSet(kw3, "redirect_uri", redirect_uri)
       ELSE kw3

\* the parameters request_token sends
TokenParams(a, redirect_uri, kwargs) ==
    LET kw1 == DictSet(kwargs, "client_id", a["client_id"])
        kw2 == DictSet(kw1, "client_secret", a["client_secret"])
        kw3 == IF ~DictHas(kw2, "grant_type")
               THEN DictSet(kw2, "grant_type", Str(<<"authorization_code">>))
               ELSE kw2
    IN IF Truthy(redirect_uri) THEN DictSet(kw3, "redirect_uri", redirect_uri)
       ELSE kw3

\* urlopen(self.token_endpoint, urlencode(kwargs).encode('utf-8'))
TokenPost(a, redirect_uri, kwargs) ==
    _request(PyStr(a["token_endpoint"]),
             Str(urlencode(TokenParams(a, redirect_uri, kwargs))), None)

\* the expires_in step of request_token, on the attributes after the copy
ExpiresStep(a, now) ==
    IF ~hasattr(a, "expires_in") THEN [attrs |-> a, result |-> Returned(None)]
    ELSE LET seconds == PyInt(a["expires_in"])
         IN IF ~seconds.ok
            THEN [attrs |-> a,
                  result |-> Raised(IF a["expires_in"].tag = "str"
                                    THEN "ValueError" ELSE "TypeError")]
            ELSE [attrs |-> setattr(a, "token_expires", Num(mktime(now + seconds.n))),
                  result |-> Returned(None)]

\* Client.request_token: the attributes and the result it leaves
request_token(a, now, parser, answer) ==
    IF answer.status = "error" THEN [attrs |-> a, result |-> Raised("URLError")]
    ELSE IF answer.body.kind = "binary"
    THEN [attrs |-> a, result |-> Raised("UnicodeDecodeError")]
    ELSE LET parsed == ApplyParser(parser, answer.body)
         IN IF parsed.raised THEN [attrs |-> a, result |-> Raised("ValueError")]
            ELSE IF ~parsed.isdict THEN [attrs |-> a, result |-> Raised("TypeError")]
            ELSE ExpiresStep(SetAll(a, parsed.data), now)

\* Client.refresh without its grant_type
RefreshKwargsNoGrant(a) == << <<"refresh_token", a["refresh_token"]>> >>

\* Client.refresh: the keyword arguments it passes to request_token
RefreshKwargs(a) ==
    << <<"refresh_token", a["refresh_token"]>>,
       <<"grant_type", Str(<<"refresh_token">>)>> >>

\* auth_uri letting a caller's client_id stand
auth_uriKeepsCallerId(a, redirect_uri, scope, state, response_type, kwargs) ==
    LET kw1 == IF DictHas(kwargs, "client_id") THEN kwargs
               ELSE DictSet(kwargs, "client_id", a["client_id"])
        kw2 == DictSet(kw1, "response_type", response_type)
        kw3 == IF Truthy(scope) THEN DictSet(kw2, "scope", scope) ELSE kw2
        kw4 == IF Truthy(state) THEN DictSet(kw3, "state", state) ELSE kw3
        kw5 == IF Truthy(redirect_uri)
               THEN DictSet(kw4, "redirect_uri", redirect_uri) ELSE kw4
    IN PyStr(a["auth_endpoint"]) \o <<"?">> \o urlencode(kw5)

\* Client.auth_uri
auth_uri(a, redirect_uri, scope, state, response_type, kwargs) ==
    LET kw1 == DictSet(kwargs, "client_id", a["client_id"])
        kw2 == DictSet(kw1, "response_type", response_type)
        kw3 == IF Truthy(scope) THEN DictSet(kw2, "scope", scope) ELSE kw2
        kw4 == IF Truthy(state) THEN DictSet(kw3, "state", state) ELSE kw3
        kw5 == IF Truthy(redirect_uri)
               THEN DictSet(kw4, "redirect_uri", redirect_uri) ELSE kw4
    IN PyStr(a["auth_endpoint"]) \o <<"?">> \o urlencode(kw5)

\* Client.request without its assertion
HasTokenUnchecked(a) == TRUE

\* assert self.access_token
HasToken(a) == Truthy(a["access_token"])

\* Client.request, once the access token is there: the request it builds
ResourceRequest(a, url, method, data, headers) ==
    CallTransport(a["token_transport"], PyStr(a["resource_endpoint"]) \o url,
                  a["access_token"], data, method, headers)

\* Client.request, after urlopen: what it returns or raises
ResourceResult(parser, raw, answer) ==
    IF answer.status = "error" THEN Raised("URLError")
    ELSE IF raw THEN Returned(answer.body)
    ELSE LET parsed == ApplyParser(parser, answer.body)
         IN IF parsed.raised THEN Raised("ValueError")
            ELSE Returned(parsed.data)

-----------------------------------------------------------------------------
(* Bounds and the inputs the operations are called with *)

MaxTime == 1

UtcOffsets == {0, 3600}

\* token_transport as given to the constructor: left out, or transport_headers
Transports == {None, Fn("transport_headers")}

Entry(k, v) == << <<k, v>> >>

\* the token responses a provider sends: any of the four keys, or none
AccessChoices == {<<>>, Entry("access_token", Str(<<"abc">>))}
RefreshChoices ==
    {<<>>, Entry("refresh_token", Str(<<"r1">>)), Entry("refresh_token", Str(<<"r2">>))}
ExpiresChoices ==
    {<<>>, Entry("expires_in", Str(<<"6", "0">>)), Entry("expires_in", Num(60)),
     Entry("expires_in", Str(<<"soon">>))}
TokenExpiresChoices == {<<>>, Entry("token_expires", Num(5))}

TokenDicts ==
    {a \o r \o e \o x : a \in AccessChoices, r \in RefreshChoices,
                        e \in ExpiresChoices, x \in TokenExpiresChoices}

\* form-encoded token responses, all of their values text
FormDicts ==
    {a \o e \o Entry("token_type", Str(<<"bearer">>)) :
        a \in AccessChoices,
        e \in {x \in ExpiresChoices : \A i \in 1..Len(x) : x[i][2].tag = "str"}}

FormAnswers == {Answered(FormBody(urlencode(d))) : d \in FormDicts}

TokenAnswers ==
    {NetError, Answered(JsonArray), Answered(Binary)}
    \cup {Answered(JsonObject(d)) : d \in TokenDicts}
    \cup FormAnswers

Parsers == {None, Fn("json.loads")}

CallbackUrl ==
    <<"https", "://", "app", "/", "cb", "?", "next", "=", "home", "&", "x", "=", "1">>

-----------------------------------------------------------------------------
(* The operations *)

Init ==
    /\ \E tt \in Transports :
        /\ attrs = ClientInit(tt)
        /\ args = [token_transport |-> tt]
    /\ utcnow = 0
    /\ utcoffset \in UtcOffsets
    /\ op = "__init__"
    /\ pre = [attrs |-> attrs, utcnow |-> utcnow]
    /\ sent = <<>>
    /\ built = <<>>
    /\ result = Returned(None)

\* the caller is between two calls
Idle == op \in {"__init__", "idle"}

\* the caller lets go of the result of the call that ended
Return ==
    /\ ~Idle
    /\ op' = "idle"
    /\ args' = <<>>
    /\ pre' = <<>>
    /\ sent' = <<>>
    /\ built' = <<>>
    /\ result' = Returned(None)
    /\ UNCHANGED <<attrs, utcnow, utcoffset>>

\* Client.request_token(parser, redirect_uri, **kwargs)
RequestTokenOver(P, R, K, A) ==
    /\ Idle
    /\ \E parser \in P, redirect_uri \in R, kwargs \in K, answer \in A :
        LET out == request_token(attrs, utcnow, parser, answer)
        IN /\ op' = "request_token"
           /\ args' = [parser |-> parser, redirect_uri |-> redirect_uri,
                       kwargs |-> kwargs, answer |-> answer]
           /\ pre' = [attrs |-> attrs, utcnow |-> utcnow]
           /\ sent' = <<TokenPost(attrs, redirect_uri, kwargs)>>
           /\ built' = <<>>
           /\ attrs' = out.attrs
           /\ result' = out.result
           /\ UNCHANGED <<utcnow, utcoffset>>

\* Client.refresh()
RefreshOver(A) ==
    /\ Idle
    /\ \E answer \in A :
        LET out == request_token(attrs, utcnow, None, answer)
        IN /\ op' = "refresh"
           /\ args' = [parser |-> None, redirect_uri |-> None,
                       kwargs |-> RefreshKwargs(attrs), answer |-> answer]
           /\ pre' = [attrs |-> attrs, utcnow |-> utcnow]
           /\ sent' = <<TokenPost(attrs, None, RefreshKwargs(attrs))>>
           /\ built' = <<>>
           /\ attrs' = out.attrs
           /\ result' = out.result
           /\ UNCHANGED <<utcnow, utcoffset>>

\* Client.request(url, method, data, headers, parser, raw)
RequestOver(U, M, D, H, P, A) ==
    /\ Idle
    /\ \E url \in U, method \in M, data \in D, headers \in H, parser \in P,
       raw \in BOOLEAN, answer \in A :
        /\ op' = "request"
        /\ args' = [url |-> url, method |-> method, data |-> data,
                    headers |-> headers, parser |-> parser, raw |-> raw,
                    answer |-> answer]
        /\ pre' = [attrs |-> attrs, utcnow |-> utcnow]
        /\ IF ~HasToken(attrs)
           THEN /\ built' = <<>>
                /\ sent' = <<>>
                /\ result' = Raised("AssertionError")
           ELSE LET req == ResourceRequest(attrs, url, method, data, headers)
                IN /\ built' = <<req>>
                   /\ sent' = <<req>>
                   /\ result' = ResourceResult(parser, raw, answer)
        /\ UNCHANGED <<attrs, utcnow, utcoffset>>

\* Client.auth_uri(redirect_uri, scope, state, response_type, **kwargs)
AuthUriOver(R, S, T, Y, K) ==
    /\ Idle
    /\ \E redirect_uri \in R, scope \in S, state \in T, response_type \in Y,
       kwargs \in K :
        /\ op' = "auth_uri"
        /\ args' = [redirect_uri |-> redirect_uri, scope |-> scope,
                    state |-> state, response_type |-> response_type,
                    kwargs |-> kwargs]
        /\ pre' = [attrs |-> attrs, utcnow |-> utcnow]
        /\ sent' = <<>>
        /\ built' = <<>>
        /\ result' = Returned(auth_uri(attrs, redirect_uri, scope, state,
                                       response_type, kwargs))
        /\ UNCHANGED <<attrs, utcnow, utcoffset>>

\* the clock advances by a second
Tick ==
    /\ Idle
    /\ utcnow < MaxTime
    /\ utcnow' = utcnow + 1
    /\ UNCHANGED <<attrs, utcoffset, op, args, pre, sent, built, result>>

(* The life of one Client: token requests against every provider answer,   *)
(* resource requests and authorization URIs with a few arguments.           *)

ResourceAnswers ==
    {NetError, Answered(Binary), Answered(JsonObject(Entry("id", Num(7))))}

CodeGrant == Entry("code", Str(<<"c1">>))

RequestToken == RequestTokenOver({None}, {None}, {CodeGrant}, TokenAnswers)

\* the same with parser=json.loads
RequestTokenJson ==
    RequestTokenOver({Fn("json.loads")}, {None}, {CodeGrant},
                     FormAnswers \cup {Answered(JsonObject(<<>>))})

Refresh == RefreshOver(TokenAnswers)

Request ==
    RequestOver({<<"/", "me", "?", "x", "=", "1">>}, {None}, {None}, {<<>>},
                {None}, ResourceAnswers)

AuthUri ==
    AuthUriOver({None}, {None}, {Str(<<"s1">>)}, {Str(<<"code">>)}, {<<>>})

\* transport_headers(url, access_token, data, method, headers), called directly
TransportHeadersOver(U, T, D, M, H) ==
    /\ Idle
    /\ \E url \in U, access_token \in T, data \in D, method \in M, headers \in H :
        LET req == transport_headers(url, access_token, data, method, headers)
        IN /\ op' = "transport_headers"
           /\ args' = [url |-> url, access_token |-> access_token, data |-> data,
                       method |-> method, headers |-> headers]
           /\ pre' = [attrs |-> attrs, utcnow |-> utcnow]
           /\ sent' = <<>>
           /\ built' = <<req>>
           /\ result' = Returned(req)
           /\ UNCHANGED <<attrs, utcnow, utcoffset>>

\* transport_query(url, access_token, data, method, headers), called directly
TransportQueryOver(U, T, D, M, H) ==
    /\ Idle
    /\ \E url \in U, access_token \in T, data \in D, method \in M, headers \in H :
        LET req == transport_query(url, access_token, data, method, headers)
        IN /\ op' = "transport_query"
           /\ args' = [url |-> url, access_token |-> access_token, data |-> data,
                       method |-> method, headers |-> headers]
           /\ pre' = [attrs |-> attrs, utcnow |-> utcnow]
           /\ sent' = <<>>
           /\ built' = <<req>>
           /\ result' = Returned(req)
           /\ UNCHANGED <<attrs, utcnow, utcoffset>>

Next ==
    \/ RequestToken
    \/ RequestTokenJson
    \/ Refresh
    \/ Request
    \/ AuthUri
    \/ Tick
    \/ Return

Spec == Init /\ [][Next]_vars

-----------------------------------------------------------------------------
(* The request builders, called with many arguments against a provider     *)
(* that answers a token request in one of three ways.                       *)

Texts == {None, Str(<<>>), Str(<<"a", " ", "b">>)}

Redirects == {None, Str(<<>>), Str(CallbackUrl)}

GrantKwargs ==
    {g \o c \o i : g \in {<<>>, Entry("grant_type", Str(<<"password">>)),
                          Entry("grant_type", Str(<<>>))},
                   c \in {<<>>, Entry("code", Str(<<"c", "&", "d">>))},
                   i \in {<<>>, Entry("client_id", Str(<<"evil">>))}}

BuildAnswers ==
    {NetError, Answered(JsonArray),
     Answered(JsonObject(Entry("access_token", Str(<<"abc">>))))}

ExtraKwargs ==
    {x \o i : x \in {<<>>, Entry("foo", Str(<<"bar">>)), Entry("foo", Str(<<>>)),
                     Entry("foo", None)},
              i \in {<<>>, Entry("client_id", Str(<<"evil">>))}}

ResponseTypes == {Str(<<"code">>), Str(<<"token">>), None}

Paths ==
    {<<"/", "me">>,
     <<"/", "me", "?", "x", "=", "1">>,
     <<"/", "me", "?", "x", "=", "1", "&", "y", "=", "a", "%26", "b", "#", "top">>,
     <<"/", "me", "?", "x", "=", "1", "&", "x", "=", "2">>,
     <<"/", "me", "?", "x", "=", "&", "y", "=", "2">>,
     <<"/", "me", "?", "access_token", "=", "old", "&", "x", "=", "1">>}

Urls == {ResourceEndpoint \o p : p \in Paths}

Tokens == {Str(<<"xyz">>), Str(<<"a", "&", "b">>)}

Methods == {None, Str(<<"PUT">>)}

Payloads == {None, Str(<<"payload">>)}

Headers ==
    {<<>>, Entry("Accept", Str(<<"json">>)),
     Entry("Accept", Str(<<"json">>)) \o Entry("Authorization", Str(<<"Basic ", "pw">>))}

BuildRequestToken ==
    RequestTokenOver({None}, Redirects, GrantKwargs, BuildAnswers)

BuildAuthUri == AuthUriOver(Redirects, Texts, Texts, ResponseTypes, ExtraKwargs)

BuildRequest ==
    RequestOver(Paths, Methods, Payloads, Headers, {None}, {NetError})

TransportHeaders == TransportHeadersOver(Urls, Tokens, Payloads, Methods, Headers)

TransportQuery == TransportQueryOver(Urls, Tokens, Payloads, Methods, Headers)

NextBuild ==
    \/ BuildRequestToken
    \/ BuildAuthUri
    \/ BuildRequest
    \/ TransportHeaders
    \/ TransportQuery
    \/ Return

SpecBuild == Init /\ [][NextBuild]_vars

-----------------------------------------------------------------------------
(* What the claims speak of *)

\* the fields of a form-encoded text as the receiver decodes them, blank
\* values kept: a sequence of <<name, value>>
WireFields(text) ==
    IF text = <<>> THEN <<>>
    ELSE LET fields == Split(text, "&")
         IN [i \in 1..Len(fields) |->
                <<FieldName(fields[i]), unquote_plus(After(fields[i], "="))>>]

\* the values a form-encoded text carries under a name
WireValues(text, name) ==
    LET w == WireFields(text)
    IN {w[i][2] : i \in {j \in 1..Len(w) : w[j][1] = name}}

\* how many fields of a form-encoded text carry a name
WireCount(text, name) ==
    LET w == WireFields(text)
    IN Cardinality({j \in 1..Len(w) : w[j][1] = name})

\* a request_token or refresh call has ended
TokenCall == op \in {"request_token", "refresh"}

TokenCallOk == TokenCall /\ result.kind = "returned"

TokenCallFailed == TokenCall /\ result.kind = "raised"

\* the token response a successful call parsed
Parsed == ApplyParser(args.parser, args.answer.body).data

\* C1: whenever request is called while access_token is not set, it raises
\* the precondition error, builds no request with the transport strategy,
\* hands nothing to urlopen and leaves the Client's attributes as they were.
C1_RequestNeedsToken ==
    (op = "request" /\ pre.attrs["access_token"] = None) =>
        /\ result = Raised("AssertionError")
        /\ built = <<>>
        /\ sent = <<>>
        /\ attrs = pre.attrs

\* request called on a Client that took a token response without access_token
C1_Witness ==
    /\ op = "request"
    /\ pre.attrs["access_token"] = None
    /\ hasattr(pre.attrs, "token_type")
    /\ result = Raised("AssertionError")

\* C2: refresh on a Client whose refresh_token is populated hands exactly one
\* request to urlopen, a POST to token_endpoint whose form carries grant_type
\* "refresh_token" and the refresh_token stored on the Client when the call began.
C2_RefreshSendsStoredToken ==
    (op = "refresh" /\ Truthy(pre.attrs["refresh_token"])) =>
        /\ Len(sent) = 1
        /\ sent[1].url = PyStr(pre.attrs["token_endpoint"])
        /\ get_method(sent[1]) = <<"POST">>
        /\ WireCount(sent[1].data.s, "grant_type") = 1
        /\ WireValues(sent[1].data.s, "grant_type") = {<<"refresh_token">>}
        /\ WireCount(sent[1].data.s, "refresh_token") = 1
        /\ WireValues(sent[1].data.s, "refresh_token")
              = {PyStr(pre.attrs["refresh_token"])}

\* refresh after a second response replaced the stored refresh token
C2_Witness ==
    /\ op = "refresh"
    /\ pre.attrs["refresh_token"] = Str(<<"r2">>)
    /\ result.kind = "returned"
    /\ attrs["refresh_token"] = Str(<<"r1">>)

\* C3 as claimed: after a successful request_token or refresh every key of
\* the parsed response is an attribute holding the response's value.
C3_EveryKeyVerbatim ==
    TokenCallOk =>
        \A k \in DictKeys(Parsed) : attrs[k] = DictGet(Parsed, k)

\* C3, amended: after a successful request_token or refresh every key of the
\* parsed response other than token_expires is an attribute holding the
\* response's value; token_expires holds the response's value when the Client
\* has no expires_in attribute, from this response or an earlier one.
C3_KeysVerbatim ==
    TokenCallOk =>
        \A k \in DictKeys(Parsed) :
            (k # "token_expires" \/ ~hasattr(attrs, "expires_in"))
                => (hasattr(attrs, k) /\ attrs[k] = DictGet(Parsed, k))

\* a form-encoded response set access_token and token_type on a Client that
\* had no token
C3_Witness ==
    /\ TokenCallOk
    /\ args.answer.body.kind = "form"
    /\ pre.attrs["access_token"] = None
    /\ attrs["access_token"] = Str(<<"abc">>)
    /\ attrs["token_type"] = Str(<<"bearer">>)

\* C4, its second sentence: after a successful request_token or refresh
\* whose response has expires_in, token_expires is the current time at that
\* call, in seconds since the epoch, plus the integer value of that expires_in.
C4_ExpiresAtNowPlusSeconds ==
    (TokenCallOk /\ DictHas(Parsed, "expires_in")) =>
        attrs["token_expires"]
            = Num(pre.utcnow + PyInt(DictGet(Parsed, "expires_in")).n)

\* C9: a successful request_token or refresh whose response has neither an
\* expires_in nor a token_expires key leaves token_expires as it was.
C9_NoExpiresInKeepsExpiry ==
    (/\ TokenCallOk
     /\ ~DictHas(Parsed, "expires_in")
     /\ ~DictHas(Parsed, "token_expires"))
        => attrs["token_expires"] = pre.attrs["token_expires"]

\* C10: a request_token or refresh that raises leaves access_token,
\* refresh_token and token_expires as they were before the call.
C10_FailedCallChangesNothing ==
    TokenCallFailed =>
        /\ attrs["access_token"] = pre.attrs["access_token"]
        /\ attrs["refresh_token"] = pre.attrs["refresh_token"]
        /\ attrs["token_expires"] = pre.attrs["token_expires"]

\* the form a token request carries
PostForm == sent[1].data.s

\* a form carries name exactly once, with the text of value v
Carries(form, name, v) ==
    WireCount(form, name) = 1 /\ WireValues(form, name) = {PyStr(v)}

\* C5: every request_token call hands exactly one request to urlopen, a POST
\* to token_endpoint whose form carries the Client's own client_id and
\* client_secret, the caller's grant_type or "authorization_code" when there
\* is none, redirect_uri only when a non-empty one was passed, and every other
\* parameter of the caller as given; when urlopen raises, the call raises.
C5_TokenRequestParams ==
    op = "request_token" =>
        /\ Len(sent) = 1
        /\ sent[1].url = PyStr(pre.attrs["token_endpoint"])
        /\ get_method(sent[1]) = <<"POST">>
        /\ Carries(PostForm, "client_id", pre.attrs["client_id"])
        /\ Carries(PostForm, "client_secret", pre.attrs["client_secret"])
        /\ Carries(PostForm, "grant_type",
                   IF DictHas(args.kwargs, "grant_type")
                   THEN DictGet(args.kwargs, "grant_type")
                   ELSE Str(<<"authorization_code">>))
        /\ IF Truthy(args.redirect_uri)
           THEN Carries(PostForm, "redirect_uri", args.redirect_uri)
           ELSE WireCount(PostForm, "redirect_uri") = 0
        /\ \A k \in DictKeys(args.kwargs) \ {"client_id", "client_secret", "grant_type"} :
              Carries(PostForm, k, DictGet(args.kwargs, k))
        /\ args.answer.status = "error" => result.kind = "raised"

\* a call that passed its own client_id and grant_type, a code and a
\* callback URL, and met a network error
C5_Witness ==
    /\ op = "request_token"
    /\ DictHas(args.kwargs, "client_id")
    /\ DictHas(args.kwargs, "grant_type")
    /\ DictHas(args.kwargs, "code")
    /\ args.redirect_uri = Str(CallbackUrl)
    /\ args.answer.status = "error"
    /\ result = Raised("URLError")

\* the request a header-based transport call built
HeaderCall ==
    \/ op = "transport_headers"
    \/ op = "request" /\ built # <<>>
                      /\ pre.attrs["token_transport"] = Fn("transport_headers")

\* the URL, token and headers a transport call was given
GivenUrl ==
    IF op = "request" THEN PyStr(pre.attrs["resource_endpoint"]) \o args.url
    ELSE args.url

GivenToken ==
    IF op = "request" THEN pre.attrs["access_token"] ELSE args.access_token

Bearer == Str(<<"Bearer ">> \o PyStr(GivenToken))

\* C6 as claimed: the request of a header-based transport call has
\* Authorization "Bearer <token>", the URL it was given and every header of
\* the caller.
C6_BearerAlways ==
    HeaderCall =>
        /\ DictHas(built[1].headers, "Authorization")
        /\ DictGet(built[1].headers, "Authorization") = Bearer
        /\ built[1].url = GivenUrl
        /\ \A i \in 1..Len(args.headers) :
              /\ DictHas(built[1].headers, args.headers[i][1])
              /\ DictGet(built[1].headers, args.headers[i][1]) = args.headers[i][2]

\* C6, amended: the request has the URL it was given and every header of the
\* caller; its Authorization is "Bearer <token>" unless the caller passed an
\* Authorization header, and then it is the caller's.
C6_BearerUnlessGiven ==
    HeaderCall =>
        /\ DictHas(built[1].headers, "Authorization")
        /\ DictGet(built[1].headers, "Authorization")
              = IF DictHas(args.headers, "Authorization")
                THEN DictGet(args.headers, "Authorization")
                ELSE Bearer
        /\ built[1].url = GivenUrl
        /\ \A i \in 1..Len(args.headers) :
              /\ DictHas(built[1].headers, args.headers[i][1])
              /\ DictGet(built[1].headers, args.headers[i][1]) = args.headers[i][2]

\* Client.request over the header transport, with a header of the caller
C6_Witness ==
    /\ op = "request"
    /\ HeaderCall
    /\ DictHas(args.headers, "Accept")
    /\ ~DictHas(args.headers, "Authorization")
    /\ DictGet(built[1].headers, "Authorization") = Str(<<"Bearer ", "abc">>)

\* the query of a URL
QueryOf(url) == After(Before(url, "#"), "?")

\* C7: the URL of a query-based transport call on a URL with query
\* parameters keeps the scheme, host, path and fragment, carries every query
\* parameter of the input and exactly one access_token, the given one.
C7_QueryKept ==
    (op = "transport_query" /\ QueryOf(args.url) # <<>>) =>
        /\ Before(built[1].url, "?") = Before(args.url, "?")
        /\ After(built[1].url, "#") = After(args.url, "#")
        /\ LET given == WireFields(QueryOf(args.url))
               kept == WireFields(QueryOf(built[1].url))
           IN \A i \in 1..Len(given) : \E j \in 1..Len(kept) : kept[j] = given[i]
        /\ Carries(QueryOf(built[1].url), "access_token", args.access_token)

\* the parameters auth_uri is to put in the query: name -> text
AuthBase ==
    {<<"client_id", PyStr(pre.attrs["client_id"])>>,
     <<"response_type", PyStr(args.response_type)>>}
    \cup (IF Truthy(args.scope) THEN {<<"scope", PyStr(args.scope)>>} ELSE {})
    \cup (IF Truthy(args.state) THEN {<<"state", PyStr(args.state)>>} ELSE {})
    \cup (IF Truthy(args.redirect_uri)
          THEN {<<"redirect_uri", PyStr(args.redirect_uri)>>} ELSE {})

\* the extra parameters of the caller, client_id aside
ExtraParams(nonEmptyOnly) ==
    {<<args.kwargs[i][1], PyStr(args.kwargs[i][2])>> :
        i \in {j \in 1..Len(args.kwargs) :
                 /\ args.kwargs[j][1] # "client_id"
                 /\ nonEmptyOnly => Truthy(args.kwargs[j][2])}}

\* the URL auth_uri returned is auth_endpoint, "?" and exactly these parameters
AuthUriIs(params) ==
    /\ StartsWith(result.value, PyStr(pre.attrs["auth_endpoint"]) \o <<"?">>)
    /\ LET w == WireFields(SubSeq(result.value,
                                  Len(PyStr(pre.attrs["auth_endpoint"])) + 2,
                                  Len(result.value)))
       IN /\ {w[i] : i \in 1..Len(w)} = params
          /\ Len(w) = Cardinality(params)
    /\ sent = <<>>
    /\ attrs = pre.attrs

\* C8 as claimed: auth_uri returns auth_endpoint + "?" and a query of exactly
\* client_id, response_type and the non-empty ones of scope, state,
\* redirect_uri and the extra parameters; no network call, no attribute changed.
C8_NonEmptyOnly == op = "auth_uri" => AuthUriIs(AuthBase \cup ExtraParams(TRUE))

\* C8, amended: the query is exactly client_id, response_type, the non-empty
\* ones of scope, state and redirect_uri, and every extra parameter, empty
\* or not.
C8_ExtrasAlways == op = "auth_uri" => AuthUriIs(AuthBase \cup ExtraParams(FALSE))

\* auth_uri with an empty scope, a state, a callback URL and a caller's
\* client_id among the extra parameters
C8_Witness ==
    /\ op = "auth_uri"
    /\ args.scope = Str(<<>>)
    /\ Truthy(args.state)
    /\ args.redirect_uri = Str(CallbackUrl)
    /\ DictHas(args.kwargs, "client_id")
    /\ DictHas(args.kwargs, "foo")
====
